---------------------------- MODULE Spec2Model ----------------------------
(***************************************************************************)
(* Line segmentation by A* path planning (astar.cpp) and the projection of *)
(* a boundary path onto the page image (utils.cpp).                        *)
(*                                                                         *)
(* Costs are C++ doubles in the source.  Here every cost is an integer     *)
(* number of ticks, Scale ticks to one cost unit.  Scale is a multiple of  *)
(* every denominator 2, 1+d and 1+d*d (d <= 5) that compute_cost divides   *)
(* by, so the costs of the grids explored here are exact.  The heuristic   *)
(* mfactor*sqrt(a+b) is irrational and is kept to 1/HRes of a cost unit.   *)
(***************************************************************************)
EXTENDS Integers, Sequences, FiniteSets, TLC

\* Bounds of the explored inputs.
Rows == 2
Cols == 5
MaxInk == 1
WalkSlack == 2
ExpansionCap == 3
PRows == 2
PCols == 3
MaxBoundary == 2

\* (int) INFINITY: the conversion is out of range.  Builds that fold the
\* constant saturate to INT_MAX; a conversion done at run time on x86 yields
\* INT_MIN.
IntMax == 2147483647
IntMin == (-IntMax) - 1
InfinityAsInt == {IntMax, IntMin}

Scale == 2040 * 64
HRes == Scale \div 512
HeuristicFactors == {1, 20}
Steps == {1, 2}
Datasets == {"MLS", "saintgall"}

VARIABLES
  graph,        \* Map: [rows, cols, grid, dmat]
  start, goal, step, mfactor, dataset,    \* arguments of astar_search
  infAsInt,     \* what (int) INFINITY is in this build
  gscore, parents, closedSet, openSet,    \* the search tables
  expansions,   \* history: how often each node ran the neighbour loop
  pc,           \* "search", "found", "exhausted", "walk", "done"
  current, path,   \* reconstruct_path's locals
  input, boundary, boundary_is_lower,   \* arguments of segment_text_line
  output,       \* the clone that is painted
  pos_bound,    \* lowest_pos (lower boundary) or highest_pos (upper)
  pix_bound,    \* upper_bound (lower boundary) or lower_bound (upper)
  idx,          \* the boundary node the painting loop is at
  written,      \* history: the (row, col) pairs handed to at<uchar>
  spilled,      \* history: byte offsets written past the pixel buffer
  box,          \* the rectangle given to extract_bounding_box
  ppc           \* "idle", "begin", "paint", "done"

searchVars == <<graph, start, goal, step, mfactor, dataset, infAsInt, gscore,
                parents, closedSet, openSet, expansions, pc, current, path>>

projVars == <<input, boundary, boundary_is_lower, output, pos_bound,
              pix_bound, idx, written, spilled, box, ppc>>

vars == <<searchVars, projVars>>

-----------------------------------------------------------------------------
\* Map and the cost model

Nodes(r, c) == (0 .. r - 1) \X (0 .. c - 1)

directions ==
  << <<-1, -1>>, <<-1, 0>>, <<-1, 1>>, <<0, -1>>, <<0, 1>>,
     <<1, -1>>, <<1, 0>>, <<1, 1>> >>

in_bounds(g, node) ==
  /\ 0 <= node[1] /\ node[1] < g.rows
  /\ 0 <= node[2] /\ node[2] < g.cols

is_wall(g, node) == g.grid[node] = 0

closest_vertical_obstacle(g, node, inf) ==
  LET dist == g.dmat[node] IN IF dist < 255 THEN dist ELSE inf

neighbors(g, node, st) ==
  LET cand == [i \in 1 .. 8 |->
                 <<node[1] + st * directions[i][1],
                   node[2] + st * directions[i][2]>>]
      ok(n) == in_bounds(g, n)
  IN  SelectSeq(cand, ok)

Range(s) == {s[i] : i \in DOMAIN s}

Abs(x) == IF x < 0 THEN -x ELSE x

V(node, st) == Abs(node[1] - st[1])

N(cur, nb) == IF cur[1] = nb[1] \/ cur[2] = nb[2] THEN 10 ELSE 14

M(g, node) == IF is_wall(g, node) THEN 1 ELSE 0

\* Mutant of D: the clearance is ignored.
D_NoClearance(g, node, inf, wd, wd2) == 0

\* wd*d + wd2*d2 of compute_cost in ticks, with <<d, d2>> = D(graph, node) =
\* <<1/(1+min), 1/(1+min^2)>>.  For min = (int) INFINITY the sum is
\* +-7e-8 cost units, far below one tick: it is kept as one tick of its sign.
D(g, node, inf, wd, wd2) ==
  LET min == closest_vertical_obstacle(g, node, inf) IN
  IF min >= 0 /\ min < 255
    THEN (wd * Scale) \div (1 + min) + (wd2 * Scale) \div (1 + min * min)
    ELSE IF min > 0 THEN 1 ELSE -1

compute_cost(g, cur, nb, st, ds, inf) ==
  IF ds = "MLS"
    THEN ((5 * Scale) \div 2) * V(nb, st) + Scale * N(cur, nb)
           + 50 * Scale * M(g, nb) + D(g, nb, inf, 130, 0)
    ELSE (Scale \div 2) * V(nb, st) + Scale * N(cur, nb)
           + 50 * Scale * M(g, nb) + D(g, nb, inf, 150, 50)

RECURSIVE SqrtIter(_, _, _)
SqrtIter(x, lo, hi) ==
  IF lo >= hi THEN lo
  ELSE LET mid == (lo + hi + 1) \div 2 IN
       IF mid * mid <= x THEN SqrtIter(x, mid, hi) ELSE SqrtIter(x, lo, mid - 1)

\* floor(sqrt(x)), 0 <= x < 2^31
ISqrt(x) == SqrtIter(x, 0, 46340)

heuristic(a, b, mf) ==
  LET aa == (a[1] - b[1]) * (a[1] - b[1])
      bb == (a[2] - b[2]) * (a[2] - b[2])
  IN  ISqrt(mf * mf * (aa + bb) * HRes * HRes) * (Scale \div HRes)

-----------------------------------------------------------------------------
\* PriorityQueue<Node>: a min-heap of (priority, node) pairs under
\* greater<pair>.  A node is only ever put with a priority below its earlier
\* ones, so no pair is put twice and the heap is a set of pairs.

ElementLess(e, f) ==
  \/ e[1] < f[1]
  \/ e[1] = f[1] /\ e[2][1] < f[2][1]
  \/ e[1] = f[1] /\ e[2][1] = f[2][1] /\ e[2][2] < f[2][2]

put(q, element, priority) == q \cup {<<priority, element>>}

top(q) == CHOOSE e \in q : \A f \in q : f = e \/ ElementLess(e, f)

\* Mutant of get: elements.pop() is left out.
get_NoPop(q) == q

\* get() returns top().second and pops it: the queue that is left
get(q) == q \ {top(q)}

-----------------------------------------------------------------------------
\* Distance field (utils.cpp distance_transform): per column, the distance
\* to the nearest ink pixel of that column, saturated to 8 bits.

Min(S) == CHOOSE x \in S : \A y \in S : x <= y
Max(S) == CHOOSE x \in S : \A y \in S : x >= y

distance_transform(r, c, grid) ==
  [n \in Nodes(r, c) |->
     LET ink == {q \in 0 .. r - 1 : grid[<<q, n[2]>>] = 0} IN
     IF ink = {} THEN 255
     ELSE Min({255} \cup {Abs(q - n[1]) : q \in ink})]

MakeMap(r, c, ink) ==
  LET grid == [n \in Nodes(r, c) |-> IF n \in ink THEN 0 ELSE 255] IN
  [rows |-> r, cols |-> c, grid |-> grid,
   dmat |-> distance_transform(r, c, grid)]

Empty == << >>

InitSearch ==
  /\ gscore = (start :> 0)
  /\ parents = Empty
  /\ closedSet = {}
  /\ openSet = put({}, start, 0)
  /\ expansions = Empty
  /\ pc = "search"
  /\ current = start
  /\ path = << >>

Mat(r, c, ink) ==
  [rows |-> r, cols |-> c,
   data |-> [k \in 0 .. r * c - 1 |->
               IF <<k \div c, k % c>> \in ink THEN 0 ELSE 255]]

ProjIdle ==
  /\ input = Mat(1, 1, {})
  /\ boundary = << >>
  /\ boundary_is_lower = FALSE
  /\ output = Mat(1, 1, {})
  /\ pos_bound = 0
  /\ pix_bound = 0
  /\ idx = 0
  /\ written = {}
  /\ spilled = {}
  /\ box = Empty
  /\ ppc = "idle"

InkSets(r, c) == {s \in SUBSET Nodes(r, c) : Cardinality(s) <= MaxInk}

\* Seed pairs as the caller supplies them: start in the first column, goal in
\* the last one, or the degenerate goal = start.
Init ==
  /\ \E ink \in InkSets(Rows, Cols) : graph = MakeMap(Rows, Cols, ink)
  /\ start \in (0 .. Rows - 1) \X {0}
  /\ goal \in ((0 .. Rows - 1) \X {Cols - 1}) \cup {start}
  /\ step \in Steps
  /\ mfactor \in HeuristicFactors
  /\ dataset \in Datasets
  /\ infAsInt \in InfinityAsInt
  /\ InitSearch
  /\ ProjIdle

-----------------------------------------------------------------------------
\* astar_search

new_gscore(cur, nb) ==
  gscore[cur] + compute_cost(graph, cur, nb, start, dataset, infAsInt)

\* Mutant of Improves: the test of line 206 is dropped.
Improves_Always(cur, nb) == TRUE

\* line 206
Improves(cur, nb) ==
  nb \notin DOMAIN gscore \/ new_gscore(cur, nb) < gscore[nb]

\* the neighbours the loop of lines 199-212 updates; they are distinct and
\* none is cur, so the updates do not depend on one another
Relaxed(cur) ==
  {nb \in Range(neighbors(graph, cur, step)) :
     nb \notin closedSet /\ Improves(cur, nb)}

\* lines 186, 201: nothing is ever inserted into closedSet
ClosedAfter(cur) == closedSet

\* the history count of x, kept up to ExpansionCap
Bump(f, x) ==
  IF x \in DOMAIN f
    THEN [f EXCEPT ![x] = IF @ < ExpansionCap THEN @ + 1 ELSE @]
    ELSE f @@ (x :> 1)

\* one iteration of the while loop of lines 191-213 (e, R and G name values
\* that are computed once)
Expand ==
  /\ pc = "search"
  /\ openSet # {}
  /\ \E e \in {top(openSet)} :
       IF e[2] = goal
         THEN /\ pc' = "found"
              /\ openSet' = get(openSet)
              /\ UNCHANGED <<gscore, parents, closedSet, expansions>>
         ELSE \E R \in {Relaxed(e[2])} :
              \E G \in {[n \in R |-> new_gscore(e[2], n)]} :
                /\ gscore' = [n \in DOMAIN gscore \cup R |->
                                IF n \in R THEN G[n] ELSE gscore[n]]
                /\ parents' = [n \in DOMAIN parents \cup R |->
                                 IF n \in R THEN e[2] ELSE parents[n]]
                /\ openSet' = get(openSet) \cup
                     {<<G[n] + heuristic(n, goal, mfactor), n>> : n \in R}
                /\ closedSet' = ClosedAfter(e[2])
                /\ expansions' = Bump(expansions, e[2])
                /\ pc' = "search"
  /\ UNCHANGED projVars
  /\ UNCHANGED <<graph, start, goal, step, mfactor, dataset, infAsInt, current, path>>

\* line 191: the queue is empty, the loop and the function end
Exhaust ==
  /\ pc = "search"
  /\ openSet = {}
  /\ pc' = "exhausted"
  /\ UNCHANGED projVars
  /\ UNCHANGED <<graph, start, goal, step, mfactor, dataset, infAsInt, gscore,
                 parents, closedSet, openSet, expansions, current, path>>

-----------------------------------------------------------------------------
\* reconstruct_path, called on the parents map astar_search filled

\* unordered_map::operator[]: a missing key is inserted with Node{} = (0,0)
Lookup(par, n) == IF n \in DOMAIN par THEN par[n] ELSE <<0, 0>>

Reverse(s) == [i \in 1 .. Len(s) |-> s[Len(s) + 1 - i]]

\* Mutant of Returned: the reverse of line 176 is left out.
Returned_NoReverse(p) == p

Returned(p) == Reverse(p)

WalkCap == graph.rows * graph.cols + WalkSlack

\* lines 168-170
ReconstructBegin ==
  /\ pc \in {"found", "exhausted"}
  /\ current' = goal
  /\ path' = <<goal>>
  /\ pc' = "walk"
  /\ UNCHANGED projVars
  /\ UNCHANGED <<graph, start, goal, step, mfactor, dataset, infAsInt, gscore,
                 parents, closedSet, openSet, expansions>>

\* lines 171-174, one iteration
ReconstructLoop ==
  /\ pc = "walk"
  /\ current # start
  /\ Len(path) < WalkCap
  /\ current' = Lookup(parents, current)
  /\ parents' = IF current \in DOMAIN parents THEN parents
                ELSE parents @@ (current :> <<0, 0>>)
  /\ path' = Append(path, current')
  /\ UNCHANGED projVars
  /\ UNCHANGED <<graph, start, goal, step, mfactor, dataset, infAsInt, gscore,
                 closedSet, openSet, expansions, pc>>

\* lines 176-177
ReconstructEnd ==
  /\ pc = "walk"
  /\ current = start
  /\ path' = Returned(path)
  /\ pc' = "done"
  /\ UNCHANGED projVars
  /\ UNCHANGED <<graph, start, goal, step, mfactor, dataset, infAsInt, gscore,
                 parents, closedSet, openSet, expansions, current>>

Next ==
  \/ Expand
  \/ Exhaust
  \/ ReconstructBegin
  \/ ReconstructLoop
  \/ ReconstructEnd

Spec == Init /\ [][Next]_vars

\* astar_search and reconstruct_path are plain sequential code: a step that
\* can be taken is taken.
FairSpec == Spec /\ WF_vars(Next)

\* The seed scenarios: an 8x8 page, blank or with the single ink pixel (3,4),
\* start (3,0), goal (3,7), step 1; and a blank 16-wide page searched with
\* step 2 from column 0 to the last column.  mfactor 1, the non-MLS weights.
SeedStart == <<3, 0>>
SeedGoal == <<3, 7>>
SeedInk == <<3, 4>>
WideGoal == <<3, 15>>

SeedInit ==
  /\ \/ /\ graph \in {MakeMap(8, 8, {}), MakeMap(8, 8, {SeedInk})}
        /\ goal = SeedGoal
        /\ step = 1
     \/ /\ graph = MakeMap(4, 16, {})
        /\ goal = WideGoal
        /\ step = 2
  /\ start = SeedStart
  /\ mfactor = 1
  /\ dataset = "saintgall"
  /\ infAsInt \in InfinityAsInt
  /\ InitSearch
  /\ ProjIdle

SeedSpec == SeedInit /\ [][Next]_vars

-----------------------------------------------------------------------------
\* utils.cpp: the projection of one boundary path (segment_text_line,
\* single-boundary overload)

\* at<uchar>(i, j) of a continuous Mat addresses byte i*cols + j and checks
\* nothing
Offset(m, i, j) == i * m.cols + j

at(m, i, j) == m.data[Offset(m, i, j)]

RECURSIVE lowest_boundary_from(_, _, _)
lowest_boundary_from(b, i, acc) ==
  IF i > Len(b) THEN acc
  ELSE lowest_boundary_from(b, i + 1, IF b[i][1] > acc THEN b[i][1] ELSE acc)

lowest_boundary_pos(b) == lowest_boundary_from(b, 2, b[1][1])

RECURSIVE highest_boundary_from(_, _, _)
highest_boundary_from(b, i, acc) ==
  IF i > Len(b) THEN acc
  ELSE highest_boundary_from(b, i + 1, IF b[i][1] < acc THEN b[i][1] ELSE acc)

highest_boundary_pos(b) == highest_boundary_from(b, 2, b[1][1])

RowHasInk(m, i) == \E j \in 0 .. m.cols - 1 : at(m, i, j) = 0

RECURSIVE ScanDown(_, _)
ScanDown(m, i) ==
  IF i >= m.rows THEN m.rows
  ELSE IF RowHasInk(m, i) THEN i ELSE ScanDown(m, i + 1)

\* Mutant of highest_pixel_row: the scan starts at row 1.
highest_pixel_row_FromRow1(m) == ScanDown(m, 1)

highest_pixel_row(m) == ScanDown(m, 0)

RECURSIVE ScanUp(_, _)
ScanUp(m, i) ==
  IF i < 0 THEN 0
  ELSE IF RowHasInk(m, i) THEN i ELSE ScanUp(m, i - 1)

lowest_pixel_row(m) == ScanUp(m, m.rows - 1)

\* lines 79, 93: the test that guards the write to column col + 1
SecondColumn(m, col) == col < m.cols

\* the at<uchar> calls of one boundary node: rows row.. (segment_above_boundary)
\* or ..row (segment_below_boundary), columns col and col + 1
NodeWrites(m, node, lower) ==
  LET rs == IF lower THEN node[1] .. m.rows - 1 ELSE 0 .. node[1] IN
  {<<i, node[2]>> : i \in rs} \cup
  (IF SecondColumn(m, node[2]) THEN {<<i, node[2] + 1>> : i \in rs} ELSE {})

Paint(m, ws) ==
  LET offs == {Offset(m, w[1], w[2]) : w \in ws} IN
  [m EXCEPT !.data = [k \in DOMAIN m.data |-> IF k \in offs THEN 255 ELSE m.data[k]]]

Spill(m, ws) ==
  {k \in {Offset(m, w[1], w[2]) : w \in ws} : k >= m.rows * m.cols}

\* lines 191-195 and 199-200: the clone, and the bounds taken before painting
SegmentBegin ==
  /\ ppc = "begin"
  /\ output' = input
  /\ pos_bound' = IF boundary_is_lower THEN lowest_boundary_pos(boundary)
                  ELSE highest_boundary_pos(boundary)
  /\ pix_bound' = IF boundary_is_lower THEN highest_pixel_row(input)
                  ELSE lowest_pixel_row(input)
  /\ idx' = 1
  /\ ppc' = "paint"
  /\ UNCHANGED <<input, boundary, boundary_is_lower, written, spilled, box>>
  /\ UNCHANGED searchVars

\* one boundary node of segment_above_boundary / segment_below_boundary
PaintNode ==
  /\ ppc = "paint"
  /\ idx <= Len(boundary)
  /\ LET ws == NodeWrites(output, boundary[idx], boundary_is_lower) IN
       /\ output' = Paint(output, ws)
       /\ written' = written \cup ws
       /\ spilled' = spilled \cup Spill(output, ws)
  /\ idx' = idx + 1
  /\ UNCHANGED <<input, boundary, boundary_is_lower, pos_bound, pix_bound, box, ppc>>
  /\ UNCHANGED searchVars

\* lines 197 and 202: extract_bounding_box(output, x, y, width, height)
Crop ==
  /\ ppc = "paint"
  /\ idx > Len(boundary)
  /\ box' = IF boundary_is_lower
              THEN [x |-> 0, y |-> pix_bound, width |-> input.cols,
                    height |-> pos_bound - pix_bound]
              ELSE [x |-> 0, y |-> pos_bound, width |-> input.cols,
                    height |-> pix_bound - pos_bound]
  /\ ppc' = "done"
  /\ UNCHANGED <<input, boundary, boundary_is_lower, output, pos_bound,
                 pix_bound, idx, written, spilled>>
  /\ UNCHANGED searchVars

ProjNext == SegmentBegin \/ PaintNode \/ Crop

Adjacent(u, v) == u # v /\ Abs(u[1] - v[1]) <= 1 /\ Abs(u[2] - v[2]) <= 1

\* boundary paths: 1 .. MaxBoundary nodes, consecutive ones 8-neighbours
Boundaries(r, c) ==
  {b \in UNION {[1 .. n -> Nodes(r, c)] : n \in 1 .. MaxBoundary} :
     \A i \in 1 .. Len(b) - 1 : Adjacent(b[i], b[i + 1])}

SearchIdle ==
  /\ graph = MakeMap(1, 1, {})
  /\ start = <<0, 0>>
  /\ goal = <<0, 0>>
  /\ step = 1
  /\ mfactor = 1
  /\ dataset = "saintgall"
  /\ infAsInt = IntMax
  /\ gscore = Empty
  /\ parents = Empty
  /\ closedSet = {}
  /\ openSet = {}
  /\ expansions = Empty
  /\ pc = "idle"
  /\ current = <<0, 0>>
  /\ path = << >>

ProjInit ==
  /\ \E ink \in InkSets(PRows, PCols) : input = Mat(PRows, PCols, ink)
  /\ boundary \in Boundaries(PRows, PCols)
  /\ boundary_is_lower \in BOOLEAN
  /\ output = input
  /\ pos_bound = 0
  /\ pix_bound = 0
  /\ idx = 0
  /\ written = {}
  /\ spilled = {}
  /\ box = Empty
  /\ ppc = "begin"
  /\ SearchIdle

ProjSpec == ProjInit /\ [][ProjNext]_vars

-----------------------------------------------------------------------------
\* Reference notions the claims are stated with, independent of the code

AllNodes == Nodes(graph.rows, graph.cols)

StepNeighbour(u, v) ==
  /\ v \in AllNodes
  /\ v # u
  /\ Abs(v[1] - u[1]) \in {0, step}
  /\ Abs(v[2] - u[2]) \in {0, step}

StepNeighbours(u) ==
  {v \in {<<u[1] + a * step, u[2] + b * step>> : a \in -1 .. 1, b \in -1 .. 1} :
     v # u /\ in_bounds(graph, v)}

\* the nodes reachable from S; F is the part of S not yet expanded
RECURSIVE Closure(_, _)
Closure(S, F) ==
  IF F = {} THEN S
  ELSE \* the new nodes one more move reaches
       LET T == UNION {StepNeighbours(u) : u \in F} \ S IN
       Closure(S \cup T, T)

GoalReachable == goal \in Closure({start}, {start})

StepCost(u, v) == compute_cost(graph, u, v, start, dataset, infAsInt)

RECURSIVE PathCostFrom(_, _)
PathCostFrom(p, i) ==
  IF i >= Len(p) THEN 0 ELSE StepCost(p[i], p[i + 1]) + PathCostFrom(p, i + 1)

PathCost(p) == PathCostFrom(p, 1)

\* exhaustive shortest path: relax every edge until nothing changes (-1: no
\* path known)
RECURSIVE Settle(_)
Settle(d) ==
  LET via(n) == {d[u] + StepCost(u, n) : u \in {x \in AllNodes : d[x] # -1 /\ StepNeighbour(x, n)}}
      best(n) == IF d[n] = -1 THEN via(n) ELSE via(n) \cup {d[n]}
      nd == [n \in AllNodes |-> IF best(n) = {} THEN -1 ELSE Min(best(n))]
  IN  IF nd = d THEN d ELSE Settle(nd)

LeastCost == Settle([n \in AllNodes |-> IF n = start THEN 0 ELSE -1])[goal]

Stuck == pc = "walk" /\ current # start /\ Len(path) >= WalkCap

-----------------------------------------------------------------------------
\* C1: when goal is reachable from start by step-scaled 8-neighbour moves,
\* the search ends by popping goal, reconstruct_path returns, and the path
\* it returns starts at start, ends at goal and moves by step-neighbours
\* only; for start = goal it is <<start>>.
C1_PathFromStartToGoal ==
  (pc \in {"exhausted", "walk", "done"} /\ GoalReachable) =>
    /\ pc # "exhausted"
    /\ ~Stuck
    /\ pc = "done" =>
         /\ Len(path) >= 1
         /\ path[1] = start
         /\ path[Len(path)] = goal
         /\ \A i \in 1 .. Len(path) - 1 : StepNeighbour(path[i], path[i + 1])
         /\ (start = goal => path = <<start>>)

C1_Witness ==
  /\ pc = "done"
  /\ GoalReachable
  /\ Len(path) >= 3
  /\ step = 2

\* C2: when goal is not reachable (the queue empties before goal is popped)
\* no node sequence is returned as a path and the reconstruction terminates.
C2_NoPathWhenUnreachable ==
  (pc \in {"walk", "done"} /\ ~GoalReachable) => (pc # "done" /\ ~Stuck)

\* C4: no node runs the neighbour loop more than once, and every node that
\* ran it is in closedSet.
C4_NoNodeExpandedTwice ==
  /\ \A n \in DOMAIN expansions : expansions[n] <= 1
  /\ closedSet = DOMAIN expansions

\* C5: for every node n other than start that has a g value,
\* g[n] = g[parent[n]] + c(parent[n], n).
C5_GIsChainCost ==
  \A n \in DOMAIN gscore \ {start} :
    /\ n \in DOMAIN parents
    /\ parents[n] \in DOMAIN gscore
    /\ gscore[n] = gscore[parents[n]] + StepCost(parents[n], n)

\* C9: astar_search terminates: the loop is left by popping goal or by
\* emptying the queue.
C9_SearchTerminates == <>(pc # "search")

C9_Witness ==
  /\ pc \in {"found", "exhausted"}
  /\ mfactor > 1
  /\ \E n \in DOMAIN expansions : expansions[n] >= 2

\* C10: g[start] = 0 and start has no parent; every other node with a g value
\* has a parent that has a smaller g value; so the walk of reconstruct_path
\* from a goal that has a g value stays on nodes with g values, never repeats
\* one and ends at start.
C10_ParentsLeadToStart ==
  /\ start \in DOMAIN gscore /\ gscore[start] = 0
  /\ start \notin DOMAIN parents
  /\ \A n \in DOMAIN gscore \ {start} :
       /\ n \in DOMAIN parents
       /\ parents[n] \in DOMAIN gscore
       /\ gscore[parents[n]] < gscore[n]
  /\ (pc = "walk" /\ goal \in DOMAIN gscore) =>
       /\ current \in DOMAIN gscore
       /\ \A i \in 1 .. Len(path) - 1 : gscore[path[i + 1]] < gscore[path[i]]
       /\ Len(path) <= Cardinality(DOMAIN gscore)
       /\ ~Stuck

C10_Witness ==
  /\ pc = "walk"
  /\ goal \in DOMAIN gscore
  /\ Len(path) >= 3
  /\ mfactor > 1

-----------------------------------------------------------------------------
\* The seed scenarios

BlankSeed == graph.rows = 8 /\ graph.cols = 8 /\ \A n \in AllNodes : ~is_wall(graph, n)
InkSeed == graph.rows = 8 /\ graph.cols = 8 /\ is_wall(graph, SeedInk)

Row3Path == [i \in 1 .. 8 |-> <<3, i - 1>>]

\* with mfactor = 1 the returned path is a least-cost path
PathIsLeastCost ==
  (pc = "done" /\ mfactor = 1 /\ GoalReachable) => PathCost(path) = LeastCost

\* on the blank seed the returned path is row 3
BlankSeedPathIsRow3 == (pc = "done" /\ BlankSeed) => path = Row3Path

\* on the blank seed the returned path costs 70
BlankSeedCostIs70 == (pc = "done" /\ BlankSeed) => PathCost(path) = 70 * Scale

\* C3: with mfactor = 1 the returned path is least-cost; on the blank 8x8
\* seed it is (3,0),(3,1),...,(3,7) with total cost 70.
C3_LeastCostAndSeedCost70 ==
  /\ PathIsLeastCost
  /\ BlankSeedPathIsRow3
  /\ BlankSeedCostIs70

\* C8 as stated: on the single-ink seed the path avoids (3,4) and leaves
\* row 3 by one row only, crossing column 4 at row 2 or row 4.
C8_OneRowDetour ==
  (pc = "done" /\ InkSeed) =>
    /\ SeedInk \notin Range(path)
    /\ \A i \in DOMAIN path : Abs(path[i][1] - 3) <= 1
    /\ \A i \in DOMAIN path : path[i][2] = 4 => path[i][1] \in {2, 4}

\* C8 amended: on the single-ink seed the path avoids (3,4) and leaves row 3
\* by three rows, crossing column 4 at row 0 or row 6.
C8_ThreeRowDetour ==
  (pc = "done" /\ InkSeed) =>
    /\ SeedInk \notin Range(path)
    /\ \A i \in DOMAIN path : Abs(path[i][1] - 3) <= 3
    /\ \E i \in DOMAIN path : path[i][2] = 4
    /\ \A i \in DOMAIN path : path[i][2] = 4 => path[i][1] \in {0, 6}

C8_Witness ==
  /\ pc = "done"
  /\ InkSeed
  /\ path[1] = SeedStart
  /\ path[Len(path)] = SeedGoal

-----------------------------------------------------------------------------
\* The projector's claims

InkRows(m) == {i \in 0 .. m.rows - 1 : \E j \in 0 .. m.cols - 1 : m.data[i * m.cols + j] = 0}

\* the topmost row that holds ink (the number of rows when none does)
TopInkRow(m) == IF InkRows(m) = {} THEN m.rows ELSE Min(InkRows(m))

\* the bottommost row that holds ink (0 when none does)
BottomInkRow(m) == IF InkRows(m) = {} THEN 0 ELSE Max(InkRows(m))

BoundaryRows == {boundary[i][1] : i \in DOMAIN boundary}

\* C6: every pixel the projector writes has a column in 0 .. W-1, and
\* nothing is written outside the image.
C6_WritesStayInsideColumns ==
  /\ \A w \in written : 0 <= w[2] /\ w[2] <= input.cols - 1
  /\ spilled = {}

\* C7 as stated: the ink end of the crop is read from the painted image.
C7_CropFromPaintedImage ==
  ppc = "done" =>
    IF boundary_is_lower
      THEN /\ box.y = TopInkRow(output)
           /\ box.y + box.height = Max(BoundaryRows)
      ELSE /\ box.y = Min(BoundaryRows)
           /\ box.y + box.height = BottomInkRow(output)

\* C7 amended: the ink end of the crop is read from the image as it is
\* before the boundary is painted: for a lower boundary the crop runs from
\* the topmost ink row of the unpainted image (the number of rows when it
\* has no ink) to the largest row of B, for an upper boundary from the
\* smallest row of B to the bottommost ink row of the unpainted image (0
\* when it has no ink).
C7_CropFromUnpaintedImage ==
  ppc = "done" =>
    IF boundary_is_lower
      THEN /\ box.y = TopInkRow(input)
           /\ box.y + box.height = Max(BoundaryRows)
      ELSE /\ box.y = Min(BoundaryRows)
           /\ box.y + box.height = BottomInkRow(input)

\* the only ink of the image lies in the erased region
C7_Witness ==
  /\ ppc = "done"
  /\ boundary_is_lower
  /\ InkRows(input) # {}
  /\ InkRows(output) = {}

=============================================================================
